---- MODULE Spec2Model ----
(***************************************************************************)
(* voicetypr, src-tauri/src/commands: the application reset orchestrator   *)
(* (reset.rs, reset_app_data) and the log retention sweeper (logs.rs,      *)
(* clear_old_logs).                                                        *)
(*                                                                         *)
(* reset_app_data is modelled one teardown step per action, in the fixed   *)
(* order of the source; the outcome of every call into a collaborator      *)
(* (store plugin, filesystem, secure vault, shell, event bus) is drawn     *)
(* with \E.  The target_os branches are selected by the variable           *)
(* platform, fixed at Init like the build target is.                       *)
(***************************************************************************)
EXTENDS Integers, Sequences, FiniteSets, TLC

\* ------------------------------------------------------------------ bounds
\* Collaborator failures injected over one behaviour (all runs together); a
\* logical directory the path service cannot resolve counts as one.
MaxFailures == 2
\* Successive invocations of reset_app_data in one behaviour.
MaxRuns == 2
\* Entries in the log directory when clear_old_logs is called.
MaxFiles == 3

VARIABLES
    \* ---- environment of reset_app_data
    platform,       \* "macos" | "linux" | "windows": the cfg(target_os) of the build
    pathOk,         \* logical directories the path service resolves
    fs,             \* filesystem targets that exist
    stores,         \* store name -> [mem, disk]: TRUE while it still holds data
    license,        \* the secure vault holds the "license" entry
    apiCache,       \* the process-wide API key cache holds entries
    events,         \* events delivered to the frontend
    lock,           \* the AsyncRwLock around the WhisperManager
    manager,        \* parts of the WhisperManager's in-memory state still loaded
    sess,           \* the concurrent transcription/model session
    \* ---- one invocation of reset_app_data
    pc,             \* "idle" | "run" | "done"
    idx,            \* position in Steps(platform)
    rt,             \* position inside the runtime-state step (8)
    errors,         \* let mut errors
    cleared_items,  \* let mut cleared_items
    trace,          \* history: <<step, outcome>> of every step entered in this run
    nfail,          \* history: failures injected so far
    fsStart,        \* history: fs when this run started
    runs,           \* history: invocations started so far
    prevClean,      \* history: the previous run recorded no filesystem error
    ret,            \* what the invocation returned
    \* ---- environment of clear_old_logs
    logDir,         \* "present" | "missing" | "unresolved": app_log_dir()
    dirEntries,     \* the entries of the log directory
    today,          \* Local::now().date_naive(), as <<year, month, day>>
    \* ---- one invocation of clear_old_logs
    lpc,            \* "idle" | "loop" | "done" | "panicked"
    days_to_keep,   \* the argument
    cutoff_date,    \* let cutoff_date, as a day number
    deleted_count,  \* let mut deleted_count
    pending,        \* entries the directory iterator has not yielded yet
    lret,           \* what the invocation returned
    dir0,           \* history: dirEntries when the call started
    removed,        \* history: entries this call removed
    failedEntry     \* history: the entry whose removal failed, or 0

envVars == <<platform, pathOk, fs, stores, license, apiCache, events>>
lockVars == <<lock, manager, sess>>
runVars == <<pc, idx, rt, errors, cleared_items, trace, nfail, fsStart, runs, prevClean, ret>>
resetVars == <<envVars, lockVars, runVars>>
logVars == <<logDir, dirEntries, today, lpc, days_to_keep, cutoff_date, deleted_count,
             pending, lret, dir0, removed, failedEntry>>
vars == <<resetVars, logVars>>

\* ------------------------------------------------------- the step sequence
Platforms == {"macos", "linux", "windows"}

S(kind, arg) == [kind |-> kind, arg |-> arg]

\* Steps 1-4, all platforms (reset.rs 23-129).
HeadSteps ==
    << S("store", "settings"), S("store", "transcriptions"),
       S("delete", "stores"),
       S("delete", "models"), S("delete", "parakeet_v3"), S("delete", "parakeet_v2"),
       S("delete", "recordings"),
       S("license", "license"),
       S("delete", "secure_dat"),
       S("delete", "cache") >>

\* Step 5, app preferences (reset.rs 131-225).
PrefSteps(p) ==
    CASE p = "macos" ->
           << S("delete", "fluid_support"), S("delete", "fluid_v3_coreml"),
              S("delete", "fluid_v2_coreml"), S("delete", "fluid_caches"),
              S("prefutil", "defaults"), S("delete", "prefs_plist") >>
      [] p = "linux" -> << S("prefutil", "dconf") >>
      [] p = "windows" -> << S("prefutil", "reg") >>

\* Step 6, additional system data (reset.rs 227-310).
AuxSteps(p) ==
    CASE p = "macos" ->
           << S("delete", "saved_state"), S("delete", "mac_logs"),
              S("delete", "webkit"), S("delete", "nsurlsession") >>
      [] p = "linux" -> << >>
      [] p = "windows" -> << S("delete", "win_logs"), S("delete", "webview2") >>

\* Step 7, system permissions (reset.rs 312-350).
PermSteps(p) ==
    CASE p = "macos" -> << S("permission", "osascript") >>
      [] p = "linux" -> << S("permission", "na_linux") >>
      [] p = "windows" -> << S("permission", "na_windows") >>

\* Steps 8-10 (reset.rs 352-386).
TailSteps(p) ==
    << S("runtime", "whisper"), S("apikey", "cache") >>
    \o (IF p = "macos" THEN << S("refresh", "cfprefsd") >> ELSE << >>)
    \o << S("emit", "app-reset") >>

\* The whole sequence, per platform.
StepTable ==
    [p \in Platforms |->
        HeadSteps \o PrefSteps(p) \o AuxSteps(p) \o PermSteps(p) \o TailSteps(p)]

Steps(p) == StepTable[p]

\* ------------------------------------------------------ filesystem targets
\* For each path the function deletes: the path-service call that resolves
\* it, the label pushed to cleared_items and the message prefix pushed to
\* errors.
Target(t) ==
    CASE t = "stores" ->
           [root |-> "app_data", label |-> "Stores directory",
            err |-> "Failed to delete stores directory: "]
      [] t = "models" ->
           [root |-> "app_data", label |-> "Downloaded models",
            err |-> "Failed to delete models directory: "]
      [] t \in {"parakeet_v3", "parakeet_v2"} ->
           [root |-> "app_data", label |-> "Parakeet model data",
            err |-> "Failed to delete Parakeet directory: "]
      [] t = "recordings" ->
           [root |-> "app_data", label |-> "Audio recordings",
            err |-> "Failed to delete recordings directory: "]
      [] t = "secure_dat" ->
           [root |-> "app_data", label |-> "Secure storage (API keys)",
            err |-> "Failed to remove secure storage: "]
      [] t = "cache" ->
           [root |-> "cache", label |-> "Cache directory",
            err |-> "Failed to clear cache: "]
      [] t \in {"fluid_support", "fluid_v3_coreml", "fluid_v2_coreml", "fluid_caches"} ->
           [root |-> "home", label |-> "FluidAudio model cache",
            err |-> "Failed to delete FluidAudio cache: "]
      [] t = "prefs_plist" ->
           [root |-> "home", label |-> "Preferences plist",
            err |-> "Failed to remove preferences file: "]
      [] t = "saved_state" ->
           [root |-> "home", label |-> "Window state",
            err |-> "Failed to clear saved state: "]
      [] t = "mac_logs" ->
           [root |-> "home", label |-> "Application logs",
            err |-> "Failed to clear logs: "]
      [] t = "webkit" ->
           [root |-> "home", label |-> "WebKit data",
            err |-> "Failed to clear WebKit data: "]
      [] t = "nsurlsession" ->
           [root |-> "home", label |-> "Download cache",
            err |-> "Failed to clear download cache: "]
      [] t = "win_logs" ->
           [root |-> "app_local_data", label |-> "Application logs",
            err |-> "Failed to clear logs: "]
      [] t = "webview2" ->
           [root |-> "temp", label |-> "WebView2 cache",
            err |-> "Failed to clear WebView2 cache: "]

TargetTable ==
    [p \in Platforms |->
        {Steps(p)[i].arg : i \in {j \in 1..Len(Steps(p)) : Steps(p)[j].kind = "delete"}}]

\* The targets the build for platform p deletes.
Targets(p) == TargetTable[p]

RootTable == [p \in Platforms |-> {Target(t).root : t \in Targets(p)}]

\* The path-service calls the build for platform p makes.
Roots(p) == RootTable[p]

\* Targets that live inside another target: the platform cache directory
\* (cache_dir()) is ~/Library/Caches on macOS and %LOCALAPPDATA% on Windows,
\* the parent of Library/Caches/..., of app_local_data_dir() and of the
\* temp directory; removing it removes them.
Nested(p, t) ==
    IF t # "cache" THEN {}
    ELSE CASE p = "macos" -> {"fluid_caches", "nsurlsession"}
           [] p = "windows" -> {"win_logs", "webview2"}
           [] p = "linux" -> {}

\* Mutant of Exists: the removal is not guarded by path.exists().
ExistsAlways(files, t) == TRUE

\* path.exists()
Exists(files, t) == t \in files

\* format!("<prefix>{}", e)
Fmt(prefix, e) == <<prefix, e>>

\* ------------------------------------------------------------ collaborators
StoreNames == {"settings", "transcriptions"}

StoreLabel(n) == IF n = "settings" THEN "Settings store" ELSE "Transcriptions store"

StoreErr(n) ==
    IF n = "settings" THEN "Failed to save cleared settings store: "
    ELSE "Failed to save cleared transcriptions store: "

\* An error string as the fragments it is made of; e.contains(x).
Contains(e, x) == \E i \in 1..Len(e) : e[i] = x

\* crate::secure_store::secure_delete(&app, "license"): the vault's backing
\* file is secure.dat; a vault that was never written cannot be opened.
SecureDeleteResults(files) ==
    IF Exists(files, "secure_dat")
    THEN {[ok |-> TRUE, e |-> << >>],
          [ok |-> FALSE, e |-> <<"Failed to save store", ": io error">>]}
    ELSE {[ok |-> FALSE, e |-> <<"Store access failed", ": no such store">>]}

ManagerParts == {"session", "model"}

\* AsyncRwLock: a writer needs the lock free of readers and writers.
WriteLockFree(l) == l.writer = "none" /\ l.readers = {}

\* AsyncRwLock is fair: nobody overtakes a queued writer.
ReadLockFree(l) == l.writer = "none" /\ ~l.queued


\* ============================================================ logs.rs
\* ------------------------------------------------- the log directory
\* The entries a log directory may hold: file names as the characters they
\* are made of, and whether path.is_file() holds.
DirEntry(e) ==
      CASE e = 1 -> [kind |-> "file", name |->
             <<"v", "o", "i", "c", "e", "t", "y", "p", "r", "-", "2", "0", "2", "4", "-", "0", "5", "-", "0", "2", ".", "l", "o", "g">>]
        [] e = 2 -> [kind |-> "file", name |->
             <<"v", "o", "i", "c", "e", "t", "y", "p", "r", "-", "2", "0", "2", "4", "-", "0", "5", "-", "0", "1", ".", "l", "o", "g">>]
        [] e = 3 -> [kind |-> "file", name |->
             <<"v", "o", "i", "c", "e", "t", "y", "p", "r", "-", "2", "0", "2", "4", "-", "0", "5", "-", "3", "1", ".", "l", "o", "g">>]
        [] e = 4 -> [kind |-> "file", name |->
             <<"v", "o", "i", "c", "e", "t", "y", "p", "r", "-", "2", "0", "2", "4", "-", "0", "6", "-", "0", "1", ".", "l", "o", "g">>]
        [] e = 5 -> [kind |-> "file", name |->
             <<"v", "o", "i", "c", "e", "t", "y", "p", "r", "-", "2", "0", "2", "0", "-", "0", "1", "-", "0", "1", ".", "l", "o", "g">>]
        [] e = 6 -> [kind |-> "file", name |->
             <<"v", "o", "i", "c", "e", "t", "y", "p", "r", "-", "2", "0", "9", "9", "-", "0", "1", "-", "0", "1", ".", "l", "o", "g">>]
        [] e = 7 -> [kind |-> "file", name |->
             <<"v", "o", "i", "c", "e", "t", "y", "p", "r", "-", "2", "0", "2", "4", "-", "0", "2", "-", "2", "9", ".", "l", "o", "g">>]
        [] e = 8 -> [kind |-> "file", name |->
             <<"a", "p", "p", "-", "2", "0", "2", "0", "-", "0", "1", "-", "0", "1", ".", "l", "o", "g">>]
        [] e = 9 -> [kind |-> "file", name |->
             <<"r", "e", "a", "d", "m", "e", ".", "t", "x", "t">>]
        [] e = 10 -> [kind |-> "file", name |->
             <<"v", "o", "i", "c", "e", "t", "y", "p", "r", "-", "2", "0", "2", "0", "-", "0", "1", "-", "0", "1", ".", "t", "x", "t">>]
        [] e = 11 -> [kind |-> "file", name |->
             <<"v", "o", "i", "c", "e", "t", "y", "p", "r", "-", "2", "0", "2", "3", "-", "0", "2", "-", "2", "9", ".", "l", "o", "g">>]
        [] e = 12 -> [kind |-> "file", name |->
             <<"v", "o", "i", "c", "e", "t", "y", "p", "r", "-", "l", "a", "t", "e", "s", "t", ".", "l", "o", "g">>]
        [] e = 13 -> [kind |-> "file", name |->
             <<"v", "o", "i", "c", "e", "t", "y", "p", "r", "-", "2", "0", "2", "0", "-", "1", "-", "1", ".", "l", "o", "g">>]
        [] e = 14 -> [kind |-> "file", name |->
             <<"v", "o", "i", "c", "e", "t", "y", "p", "r", "-", "-", "2", "0", "2", "0", "-", "0", "1", "-", "0", "1", ".", "l", "o", "g">>]
        [] e = 15 -> [kind |-> "dir", name |->
             <<"v", "o", "i", "c", "e", "t", "y", "p", "r", "-", "2", "0", "1", "9", "-", "1", "2", "-", "3", "1", ".", "l", "o", "g">>]

EntryIds == 1..15

\* ----------------------------------------------------- string helpers
\* str::starts_with
StartsWith(s, p) == Len(s) >= Len(p) /\ SubSeq(s, 1, Len(p)) = p

\* str::ends_with
EndsWith(s, x) == Len(s) >= Len(x) /\ SubSeq(s, Len(s) - Len(x) + 1, Len(s)) = x

\* str::strip_prefix: None is <<FALSE>>, Some(r) is <<TRUE, r>>
StripPrefix(s, p) ==
    IF StartsWith(s, p) THEN <<TRUE, SubSeq(s, Len(p) + 1, Len(s))>> ELSE <<FALSE>>

\* str::strip_suffix
StripSuffix(s, x) ==
    IF EndsWith(s, x) THEN <<TRUE, SubSeq(s, 1, Len(s) - Len(x))>> ELSE <<FALSE>>

LogPrefix == <<"v", "o", "i", "c", "e", "t", "y", "p", "r", "-">>

LogSuffix == <<".", "l", "o", "g">>

Digits == <<"0", "1", "2", "3", "4", "5", "6", "7", "8", "9">>

IsDigit(c) == \E i \in 1..10 : Digits[i] = c

DigitVal(c) == (CHOOSE i \in 1..10 : Digits[i] = c) - 1

\* The number of leading digits of s from position pos, at most max.
DigitRun(s, pos, max) ==
    LET ks == {k \in 0..max : \A j \in 0..(k - 1) :
                 pos + j <= Len(s) /\ IsDigit(s[pos + j])}
    IN CHOOSE k \in ks : \A k2 \in ks : k2 <= k

RECURSIVE NumVal(_, _, _)
\* The value of the digits s[from..to].
NumVal(s, from, to) ==
    IF to < from THEN 0 ELSE 10 * NumVal(s, from, to - 1) + DigitVal(s[to])

\* chrono's numeric item: between 1 and max digits, taken greedily.
ScanNumber(s, pos, max) ==
    LET n == DigitRun(s, pos, max)
    IN IF n = 0 THEN [ok |-> FALSE, val |-> 0, next |-> pos]
       ELSE [ok |-> TRUE, val |-> NumVal(s, pos, pos + n - 1), next |-> pos + n]

\* chrono's %Y: an explicit sign lifts the width of 4.
ScanYear(s) ==
    IF Len(s) >= 1 /\ s[1] \in {"-", "+"}
    THEN LET r == ScanNumber(s, 2, Len(s))
         IN [r EXCEPT !.val = IF s[1] = "-" THEN 0 - @ ELSE @]
    ELSE ScanNumber(s, 1, 4)

IsLeap(y) == (y % 4 = 0 /\ y % 100 # 0) \/ y % 400 = 0

DaysInMonth(y, m) ==
    IF m = 2 THEN (IF IsLeap(y) THEN 29 ELSE 28)
    ELSE IF m \in {4, 6, 9, 11} THEN 30 ELSE 31

\* NaiveDate::from_ymd_opt(y, m, d).is_some()
ValidDate(y, m, d) == m \in 1..12 /\ d >= 1 /\ d <= DaysInMonth(y, m)

\* A NaiveDate as its day number (days since 1970-01-01): the proleptic
\* Gregorian calendar NaiveDate orders and subtracts in.
DayNumber(y, m, d) ==
    LET yy == IF m <= 2 THEN y - 1 ELSE y
        era == yy \div 400
        yoe == yy - era * 400
        mp == IF m > 2 THEN m - 3 ELSE m + 9
        doy == (153 * mp + 2) \div 5 + d - 1
        doe == yoe * 365 + yoe \div 4 - yoe \div 100 + doy
    IN era * 146097 + doe - 719468

\* NaiveDate::parse_from_str(s, "%Y-%m-%d"): Err is <<FALSE>>, Ok(date) is
\* <<TRUE, day number>>.
ParseDate(s) ==
    LET y == ScanYear(s)
        m == ScanNumber(s, y.next + 1, 2)
        d == ScanNumber(s, m.next + 1, 2)
    IN IF /\ y.ok
          /\ y.next <= Len(s) /\ s[y.next] = "-"
          /\ m.ok
          /\ m.next <= Len(s) /\ s[m.next] = "-"
          /\ d.ok
          /\ d.next = Len(s) + 1
          /\ ValidDate(y.val, m.val, d.val)
       THEN <<TRUE, DayNumber(y.val, m.val, d.val)>>
       ELSE <<FALSE>>

\* NaiveDate::MIN and NaiveDate::MAX.
MinDate == DayNumber(-262143, 1, 1)

MaxDate == DayNumber(262142, 12, 31)

\* Local::now().date_naive() - chrono::Duration::days(days_to_keep as i64):
\* the subtraction panics when the result is no NaiveDate (logs.rs 16).
CutoffDate(now, days) ==
    LET c == now - days
    IN IF c < MinDate \/ c > MaxDate THEN <<FALSE>> ELSE <<TRUE, c>>

\* Mutant of Before: the comparison is not strict.
BeforeOrEqual(file_date, cutoff) == file_date <= cutoff

\* file_date < cutoff_date (logs.rs 40)
Before(file_date, cutoff) == file_date < cutoff

\* The tests an entry passes before it is removed (logs.rs 26-40).
ShouldDelete(e, cutoff) ==
    /\ DirEntry(e).kind = "file"
    /\ LET file_name == DirEntry(e).name
       IN /\ StartsWith(file_name, LogPrefix) /\ EndsWith(file_name, LogSuffix)
          /\ LET a == StripPrefix(file_name, LogPrefix)
                 b == IF a[1] THEN StripSuffix(a[2], LogSuffix) ELSE <<FALSE>>
                 date_str == IF b[1] THEN b[2] ELSE << >>
                 file_date == ParseDate(date_str)
             IN file_date[1] /\ Before(file_date[2], cutoff)

\* ------------------------------------------------------ clear_old_logs
\* The dates the call may run on.
Todays == {<<2024, 6, 1>>, <<2024, 3, 1>>}

\* The retention windows asked for.  days_to_keep is a u32; 2147483647 (the
\* largest number TLC computes with) stands for its large values.
DaysChoices == {0, 1, 30, 2147483647}

NoResult == [kind |-> "none"]

Ok(v) == [kind |-> "Ok", value |-> v]

Err(prefix, e) == [kind |-> "Err", value |-> Fmt(prefix, e)]

\* The call up to the loop (logs.rs 6-20).
LogsCall ==
    /\ UNCHANGED resetVars
    /\ lpc = "idle"
    /\ \E d \in DaysChoices : \E readable \in BOOLEAN :
         LET cutoff == CutoffDate(DayNumber(today[1], today[2], today[3]), d)
         IN /\ days_to_keep' = d
            /\ dir0' = dirEntries
            /\ IF logDir = "unresolved"
               THEN /\ readable
                    /\ lpc' = "done"
                    /\ lret' = Err("Failed to get log directory: ", "unknown path")
                    /\ UNCHANGED <<cutoff_date, pending>>
               ELSE IF logDir = "missing"
               THEN /\ readable
                    /\ lpc' = "done"
                    /\ lret' = Ok(0)
                    /\ UNCHANGED <<cutoff_date, pending>>
               ELSE IF ~cutoff[1]
               THEN /\ readable
                    /\ lpc' = "panicked"
                    /\ UNCHANGED <<cutoff_date, pending, lret>>
               ELSE IF ~readable
               THEN /\ lpc' = "done"
                    /\ lret' = Err("Failed to read log directory: ", "io error")
                    /\ cutoff_date' = cutoff[2]
                    /\ UNCHANGED pending
               ELSE /\ lpc' = "loop"
                    /\ cutoff_date' = cutoff[2]
                    /\ pending' = dirEntries
                    /\ UNCHANGED lret
    /\ UNCHANGED <<logDir, dirEntries, today, deleted_count, removed, failedEntry>>

\* Mutant of RemoveResult: the error is kept for the end of the loop and the
\* sweep goes on.
RemoveResultContinue(ok, count) ==
    IF ok
    THEN [pc |-> "loop", count |-> count + 1, ret |-> [kind |-> "none"]]
    ELSE [pc |-> "loop", count |-> count,
          ret |-> [kind |-> "Err", value |-> <<"Failed to delete log file: ", "io error">>]]

\* fs::remove_file(&path).map_err(..)?; deleted_count += 1 (logs.rs 41-43):
\* where the call stands after the removal.
RemoveResult(ok, count) ==
    IF ok
    THEN [pc |-> "loop", count |-> count + 1, ret |-> NoResult]
    ELSE [pc |-> "done", count |-> count,
          ret |-> Err("Failed to delete log file: ", "io error")]

\* One iteration of `for entry in entries` (logs.rs 22-49); the directory
\* yields its entries in any order.
LogsEntry ==
    /\ UNCHANGED resetVars
    /\ lpc = "loop"
    /\ \E e \in pending : \E entryOk \in BOOLEAN : \E removeOk \in BOOLEAN :
         /\ pending' = pending \ {e}
         /\ IF ~entryOk
            THEN /\ removeOk
                 /\ lpc' = "done"
                 /\ lret' = Err("Failed to read directory entry: ", "io error")
                 /\ UNCHANGED <<dirEntries, deleted_count, removed, failedEntry>>
            ELSE IF ~ShouldDelete(e, cutoff_date)
            THEN /\ removeOk
                 /\ UNCHANGED <<lpc, lret, dirEntries, deleted_count, removed, failedEntry>>
            ELSE LET r == RemoveResult(removeOk, deleted_count)
                 IN /\ lpc' = r.pc
                    /\ lret' = r.ret
                    /\ deleted_count' = r.count
                    /\ dirEntries' = IF removeOk THEN dirEntries \ {e} ELSE dirEntries
                    /\ removed' = IF removeOk THEN removed \cup {e} ELSE removed
                    /\ failedEntry' = IF removeOk THEN failedEntry ELSE e
    /\ UNCHANGED <<logDir, today, days_to_keep, cutoff_date, dir0>>

\* Ok(deleted_count) (logs.rs 51).
LogsReturn ==
    /\ UNCHANGED resetVars
    /\ lpc = "loop"
    /\ pending = {}
    /\ lpc' = "done"
    /\ lret' = Ok(deleted_count)
    /\ UNCHANGED <<logDir, dirEntries, today, days_to_keep, cutoff_date, deleted_count,
                   pending, dir0, removed, failedEntry>>

LogNext ==
    \/ LogsCall
    \/ LogsEntry
    \/ LogsReturn


\* ---------------------------------------------------------------- Init
\* Installations a first reset meets: a used one, and one whose secure vault
\* was never written.  (A second reset meets what the first one left.)
Installs(p) == {Targets(p), Targets(p) \ {"secure_dat"}}

ResetInit ==
    /\ platform \in Platforms
    /\ pathOk \in {Roots(platform) \ b : b \in {x \in SUBSET Roots(platform) :
                                                  Cardinality(x) <= MaxFailures}}
    /\ fs \in Installs(platform)
    /\ stores = [n \in StoreNames |-> [mem |-> TRUE, disk |-> TRUE]]
    /\ license = Exists(fs, "secure_dat")
    /\ apiCache = TRUE
    /\ events = << >>
    /\ lock = [writer |-> "none", readers |-> {}, queued |-> FALSE]
    /\ manager = ManagerParts
    /\ sess = "idle"
    /\ pc = "idle"
    /\ idx = 0
    /\ rt = "none"
    /\ errors = << >>
    /\ cleared_items = << >>
    /\ trace = << >>
    /\ nfail = Cardinality(Roots(platform) \ pathOk)
    /\ fsStart = fs
    /\ runs = 0
    /\ prevClean = FALSE
    /\ ret = NoResult

\* The sweeper before any call, in a directory holding at most MaxFiles of
\* the entries.
LogsInit ==
    /\ logDir \in {"present", "missing", "unresolved"}
    /\ dirEntries \in IF logDir = "present"
                      THEN {d \in SUBSET EntryIds : Cardinality(d) <= MaxFiles}
                      ELSE {{}}
    /\ today \in Todays
    /\ lpc = "idle"
    /\ days_to_keep = 0
    /\ cutoff_date = 0
    /\ deleted_count = 0
    /\ pending = {}
    /\ lret = NoResult
    /\ dir0 = {}
    /\ removed = {}
    /\ failedEntry = 0

\* reset_app_data is not invoked: a used Linux installation at rest.
ResetQuiet ==
    /\ ResetInit
    /\ platform = "linux"
    /\ pathOk = Roots(platform)
    /\ fs = Targets(platform)

\* clear_old_logs is not invoked.
LogsQuiet ==
    /\ LogsInit
    /\ logDir = "missing"
    /\ today = <<2024, 6, 1>>

Init == ResetInit /\ LogsQuiet

LogInit == ResetQuiet /\ LogsInit

\* ----------------------------------------------------- reset_app_data
Cur == Steps(platform)[idx]

AtStep(kind) == pc = "run" /\ idx <= Len(Steps(platform)) /\ Cur.kind = kind

\* A failure may be injected.
MayFail == nfail < MaxFailures

\* Mutant of NextIdx: a failed step returns early, as `?` would.
NextIdxAbort(i, failed) == IF failed THEN Len(Steps(platform)) + 1 ELSE i + 1

\* Control falls through to the next statement whatever the step's outcome:
\* no `?`, no return before line 396.
NextIdx(i, failed) == i + 1

\* Mutant of Advance: a new entry is inserted at the front of its sequence.
AdvancePrepend(outcome, failed, injected, errs, clrd) ==
    /\ errors' = IF Len(errs) > Len(errors)
                 THEN <<errs[Len(errs)]>> \o errors
                 ELSE errs
    /\ cleared_items' = IF Len(clrd) > Len(cleared_items)
                        THEN <<clrd[Len(clrd)]>> \o cleared_items
                        ELSE clrd
    /\ trace' = Append(trace, <<idx, outcome>>)
    /\ nfail' = IF injected THEN nfail + 1 ELSE nfail
    /\ idx' = NextIdx(idx, failed)
    /\ UNCHANGED <<pc, fsStart, runs, prevClean, ret, platform, pathOk>>

\* The bookkeeping common to all steps: the step's pushes, its trace entry
\* and the move to the next step.
Advance(outcome, failed, injected, errs, clrd) ==
    /\ errors' = errs
    /\ cleared_items' = clrd
    /\ trace' = Append(trace, <<idx, outcome>>)
    /\ nfail' = IF injected THEN nfail + 1 ELSE nfail
    /\ idx' = NextIdx(idx, failed)
    /\ UNCHANGED <<pc, fsStart, runs, prevClean, ret, platform, pathOk>>

FsErrTable == [p \in Platforms |-> {Target(t).err : t \in Targets(p)}]

\* The message prefixes of failed filesystem deletions.
FsErrs(p) == FsErrTable[p]

FsLabelTable == [p \in Platforms |-> {Target(t).label : t \in Targets(p)}]

\* The labels of successful filesystem deletions.
FsLabels(p) == FsLabelTable[p]

\* A new invocation (reset.rs 13-21).
StartRun ==
    /\ UNCHANGED logVars
    /\ pc \in {"idle", "done"}
    /\ runs < MaxRuns
    /\ pc' = "run"
    /\ idx' = 1
    /\ errors' = << >>
    /\ cleared_items' = << >>
    /\ trace' = << >>
    /\ fsStart' = fs
    /\ runs' = runs + 1
    /\ prevClean' = (pc = "done" /\ \A i \in 1..Len(errors) : errors[i][1] \notin FsErrs(platform))
    /\ ret' = NoResult
    /\ UNCHANGED <<rt, nfail, envVars, lockVars>>

\* Mutant of StorePush: the label is pushed after the save whatever its
\* result.
StorePushBoth(n, outcome, errs, clrd) ==
    CASE outcome = "open_fail" -> [errors |-> errs, cleared |-> clrd]
      [] outcome = "save_fail" ->
           [errors |-> Append(errs, Fmt(StoreErr(n), "save error")),
            cleared |-> Append(clrd, StoreLabel(n))]
      [] outcome = "ok" -> [errors |-> errs, cleared |-> Append(clrd, StoreLabel(n))]

\* What one store's block pushes (reset.rs 25-32, 35-45).
StorePush(n, outcome, errs, clrd) ==
    CASE outcome = "open_fail" -> [errors |-> errs, cleared |-> clrd]
      [] outcome = "save_fail" ->
           [errors |-> Append(errs, Fmt(StoreErr(n), "save error")), cleared |-> clrd]
      [] outcome = "ok" -> [errors |-> errs, cleared |-> Append(clrd, StoreLabel(n))]

\* 1. app.store(name), store.clear(), store.save() (reset.rs 25-45).
StoreStep ==
    /\ UNCHANGED logVars
    /\ AtStep("store")
    /\ \E outcome \in {"ok", "save_fail", "open_fail"} :
         LET n == Cur.arg
             p == StorePush(n, outcome, errors, cleared_items)
         IN /\ outcome # "ok" => MayFail
            /\ stores' = [stores EXCEPT
                            ![n] = CASE outcome = "open_fail" -> @
                                     [] outcome = "save_fail" -> [@ EXCEPT !.mem = FALSE]
                                     [] outcome = "ok" -> [mem |-> FALSE, disk |-> FALSE]]
            /\ Advance(outcome, outcome # "ok", outcome # "ok", p.errors, p.cleared)
    /\ UNCHANGED <<fs, license, apiCache, events, rt, lockVars>>

\* Mutant of DeletePush: the label is pushed outside the path.exists() test.
DeletePushOutside(t, outcome, errs, clrd) ==
    CASE outcome \in {"ok", "absent"} ->
           [errors |-> errs, cleared |-> Append(clrd, Target(t).label)]
      [] outcome = "fail" ->
           [errors |-> Append(errs, Fmt(Target(t).err, "io error")), cleared |-> clrd]
      [] OTHER -> [errors |-> errs, cleared |-> clrd]

\* What one deletion block pushes (reset.rs 50-56 and its copies).
DeletePush(t, outcome, errs, clrd) ==
    CASE outcome = "ok" -> [errors |-> errs, cleared |-> Append(clrd, Target(t).label)]
      [] outcome = "fail" ->
           [errors |-> Append(errs, Fmt(Target(t).err, "io error")), cleared |-> clrd]
      [] OTHER -> [errors |-> errs, cleared |-> clrd]

\* fs::remove_dir_all / fs::remove_file on a path: the outcomes and the
\* filesystem each leaves.  A path that does not exist is an error
\* (NotFound); a failed recursive removal may already have removed entries
\* below the path.
Remove(p, files, t) ==
    IF t \notin files
    THEN {[outcome |-> "fail", fs |-> files, injected |-> FALSE]}
    ELSE {[outcome |-> "ok", fs |-> files \ ({t} \cup Nested(p, t)), injected |-> FALSE]}
         \cup {[outcome |-> "fail", fs |-> files \ gone, injected |-> TRUE] :
                 gone \in SUBSET (Nested(p, t) \cap files)}

\* 1-6. if let Ok(dir) = app.path().<root>() { if path.exists() { remove } }
DeleteStep ==
    /\ UNCHANGED logVars
    /\ AtStep("delete")
    /\ LET t == Cur.arg
           rs == IF Target(t).root \notin pathOk
                 THEN {[outcome |-> "resolve_fail", fs |-> fs, injected |-> FALSE]}
                 ELSE IF ~Exists(fs, t)
                 THEN {[outcome |-> "absent", fs |-> fs, injected |-> FALSE]}
                 ELSE Remove(platform, fs, t)
       IN \E r \in rs :
            LET p == DeletePush(t, r.outcome, errors, cleared_items)
            IN /\ r.injected => MayFail
               /\ fs' = r.fs
               /\ Advance(r.outcome, r.outcome \in {"fail", "resolve_fail"}, r.injected,
                          p.errors, p.cleared)
    /\ UNCHANGED <<stores, license, apiCache, events, rt, lockVars>>

\* Mutant of LicensePush: every secure_delete error is pushed.
LicensePushStrict(res, errs, clrd) ==
    IF ~res.ok
    THEN [errors |-> Append(errs, Fmt("Failed to clear license: ", res.e)), cleared |-> clrd]
    ELSE [errors |-> errs, cleared |-> Append(clrd, "License data")]

\* What the license block pushes (reset.rs 99-106).
LicensePush(res, errs, clrd) ==
    IF ~res.ok
    THEN IF ~Contains(res.e, "Store access failed")
         THEN [errors |-> Append(errs, Fmt("Failed to clear license: ", res.e)),
               cleared |-> clrd]
         ELSE [errors |-> errs, cleared |-> clrd]
    ELSE [errors |-> errs, cleared |-> Append(clrd, "License data")]

\* 3. secure_delete(&app, "license") (reset.rs 98-106).
LicenseStep ==
    /\ UNCHANGED logVars
    /\ AtStep("license")
    /\ \E res \in SecureDeleteResults(fs) :
         LET p == LicensePush(res, errors, cleared_items)
             other == ~res.ok /\ ~Contains(res.e, "Store access failed")
             outcome == IF res.ok THEN "ok" ELSE IF other THEN "fail" ELSE "vault_absent"
         IN /\ other => MayFail
            /\ license' = IF res.ok THEN FALSE ELSE license
            /\ Advance(outcome, other, other, p.errors, p.cleared)
    /\ UNCHANGED <<fs, stores, apiCache, events, rt, lockVars>>

PrefLabel(u) ==
    CASE u = "defaults" -> "System preferences"
      [] u = "dconf" -> "GSettings/dconf preferences"
      [] u = "reg" -> "Registry settings"

\* Mutant of PrefUtilStep: a spawned utility is recorded whatever its exit
\* status.
PrefUtilStepSpawnOnly ==
    /\ UNCHANGED logVars
    /\ AtStep("prefutil")
    /\ \E outcome \in {"ok", "nonzero", "spawn_fail"} :
         /\ outcome # "ok" => MayFail
         /\ Advance(outcome, outcome # "ok", outcome # "ok", errors,
                    IF outcome \in {"ok", "nonzero"}
                    THEN Append(cleared_items, PrefLabel(Cur.arg))
                    ELSE cleared_items)
    /\ UNCHANGED <<fs, stores, license, apiCache, events, rt, lockVars>>

\* 5. Command::new(defaults | dconf | reg).output() (reset.rs 155-168,
\* 190-202, 208-224): only a spawned process that exits with success is
\* recorded; nothing else is.
PrefUtilStep ==
    /\ UNCHANGED logVars
    /\ AtStep("prefutil")
    /\ \E outcome \in {"ok", "nonzero", "spawn_fail"} :
         /\ outcome # "ok" => MayFail
         /\ Advance(outcome, outcome # "ok", outcome # "ok", errors,
                    IF outcome = "ok" THEN Append(cleared_items, PrefLabel(Cur.arg))
                    ELSE cleared_items)
    /\ UNCHANGED <<fs, stores, license, apiCache, events, rt, lockVars>>

\* 7. osascript ... tccutil reset (reset.rs 313-338); the N/A entries of
\* Windows and Linux (reset.rs 340-350).
PermissionStep ==
    /\ UNCHANGED logVars
    /\ AtStep("permission")
    /\ CASE Cur.arg = "na_windows" ->
              Advance("na", FALSE, FALSE, errors,
                      Append(cleared_items, "System permissions (N/A on Windows)"))
         [] Cur.arg = "na_linux" ->
              Advance("na", FALSE, FALSE, errors,
                      Append(cleared_items, "System permissions (N/A on Linux)"))
         [] Cur.arg = "osascript" ->
              \E outcome \in {"ok", "nonzero", "spawn_fail"} :
                /\ outcome # "ok" => MayFail
                /\ Advance(outcome, outcome # "ok", outcome # "ok",
                           IF outcome = "spawn_fail"
                           THEN Append(errors, Fmt("Could not reset permissions: ", "spawn error"))
                           ELSE errors,
                           IF outcome = "ok"
                           THEN Append(cleared_items, "System permissions")
                           ELSE cleared_items)
    /\ UNCHANGED <<fs, stores, license, apiCache, events, rt, lockVars>>

\* Mutant of RuntimeRequest: the manager is taken without waiting for the
\* lock to be free.
RuntimeRequestNoWait ==
    /\ UNCHANGED logVars
    /\ AtStep("runtime") /\ rt = "none"
    /\ lock' = [lock EXCEPT !.writer = "reset"]
    /\ rt' = "held"
    /\ UNCHANGED <<envVars, manager, sess, pc, idx, errors, cleared_items, trace,
                   nfail, fsStart, runs, prevClean, ret>>

\* 8. whisper_state.write().await: polled once; the lock is taken when it
\* is free, otherwise the task queues for it (reset.rs 354-355).
RuntimeRequest ==
    /\ UNCHANGED logVars
    /\ AtStep("runtime") /\ rt = "none"
    /\ IF WriteLockFree(lock)
       THEN lock' = [lock EXCEPT !.writer = "reset"] /\ rt' = "held"
       ELSE lock' = [lock EXCEPT !.queued = TRUE] /\ rt' = "queued"
    /\ UNCHANGED <<envVars, manager, sess, pc, idx, errors, cleared_items, trace,
                   nfail, fsStart, runs, prevClean, ret>>

\* Mutant of RuntimeAcquire: the queued writer waits for the queue to be
\* empty, itself included.
RuntimeAcquireBehindQueue ==
    /\ UNCHANGED logVars
    /\ AtStep("runtime") /\ rt = "queued"
    /\ WriteLockFree(lock) /\ ~lock.queued
    /\ lock' = [lock EXCEPT !.writer = "reset", !.queued = FALSE]
    /\ rt' = "held"
    /\ UNCHANGED <<envVars, manager, sess, pc, idx, errors, cleared_items, trace,
                   nfail, fsStart, runs, prevClean, ret>>

\* 8. the queued write() completes (reset.rs 355).
RuntimeAcquire ==
    /\ UNCHANGED logVars
    /\ AtStep("runtime") /\ rt = "queued"
    /\ WriteLockFree(lock)
    /\ lock' = [lock EXCEPT !.writer = "reset", !.queued = FALSE]
    /\ rt' = "held"
    /\ UNCHANGED <<envVars, manager, sess, pc, idx, errors, cleared_items, trace,
                   nfail, fsStart, runs, prevClean, ret>>

\* 8. whisper_manager.clear_all(), first half (reset.rs 356).
ClearAllBegin ==
    /\ UNCHANGED logVars
    /\ AtStep("runtime") /\ rt = "held"
    /\ manager' = manager \ {"session"}
    /\ rt' = "half"
    /\ UNCHANGED <<envVars, lock, sess, pc, idx, errors, cleared_items, trace,
                   nfail, fsStart, runs, prevClean, ret>>

\* 8. whisper_manager.clear_all(), second half (reset.rs 356).
ClearAllEnd ==
    /\ UNCHANGED logVars
    /\ AtStep("runtime") /\ rt = "half"
    /\ manager' = {}
    /\ rt' = "cleared"
    /\ UNCHANGED <<envVars, lock, sess, pc, idx, errors, cleared_items, trace,
                   nfail, fsStart, runs, prevClean, ret>>

\* 8. drop(whisper_manager); cleared_items.push("Runtime state")
\* (reset.rs 357-358).
RuntimeDrop ==
    /\ UNCHANGED logVars
    /\ AtStep("runtime") /\ rt = "cleared"
    /\ lock' = [lock EXCEPT !.writer = "none"]
    /\ rt' = "none"
    /\ Advance("ok", FALSE, FALSE, errors, Append(cleared_items, "Runtime state"))
    /\ UNCHANGED <<fs, stores, license, apiCache, events, manager, sess>>

\* 8.5. clear_all_api_key_cache() (reset.rs 361-365).
ApiKeyStep ==
    /\ UNCHANGED logVars
    /\ AtStep("apikey")
    /\ \E ok \in BOOLEAN :
         /\ ~ok => MayFail
         /\ apiCache' = IF ok THEN FALSE ELSE apiCache
         /\ Advance(IF ok THEN "ok" ELSE "fail", ~ok, ~ok,
                    IF ok THEN errors
                    ELSE Append(errors, Fmt("Failed to clear API key cache: ", "cache error")),
                    IF ok THEN Append(cleared_items, "AI API key cache")
                    ELSE cleared_items)
    /\ UNCHANGED <<fs, stores, license, events, rt, lockVars>>

\* 9. killall cfprefsd, result ignored (reset.rs 368-381).
RefreshStep ==
    /\ UNCHANGED logVars
    /\ AtStep("refresh")
    /\ \E outcome \in {"ok", "spawn_fail"} :
         /\ outcome # "ok" => MayFail
         /\ Advance(outcome, outcome # "ok", outcome # "ok", errors, cleared_items)
    /\ UNCHANGED <<fs, stores, license, apiCache, events, rt, lockVars>>

\* Mutant of EmitStep: the result of the emit is dropped.
EmitStepIgnored ==
    /\ UNCHANGED logVars
    /\ AtStep("emit")
    /\ \E ok \in BOOLEAN :
         /\ ~ok => MayFail
         /\ events' = IF ok THEN Append(events, "app-reset") ELSE events
         /\ Advance(IF ok THEN "ok" ELSE "fail", ~ok, ~ok, errors, cleared_items)
    /\ UNCHANGED <<fs, stores, license, apiCache, rt, lockVars>>

\* 10. app.emit("app-reset", ()) (reset.rs 384-386).
EmitStep ==
    /\ UNCHANGED logVars
    /\ AtStep("emit")
    /\ \E ok \in BOOLEAN :
         /\ ~ok => MayFail
         /\ events' = IF ok THEN Append(events, "app-reset") ELSE events
         /\ Advance(IF ok THEN "ok" ELSE "fail", ~ok, ~ok,
                    IF ok THEN errors
                    ELSE Append(errors, Fmt("Failed to emit reset event: ", "emit error")),
                    cleared_items)
    /\ UNCHANGED <<fs, stores, license, apiCache, rt, lockVars>>

\* Mutant of Success: the flag no longer looks at errors.
SuccessAlways(errs) == TRUE

\* let success = errors.is_empty() (reset.rs 388).
Success(errs) == errs = << >>

\* Mutant of Return: a run with errors returns them as the call's error.
ReturnErr(success, errs, clrd) ==
    IF success
    THEN [kind |-> "Ok",
          value |-> [success |-> success, errors |-> errs, cleared_items |-> clrd]]
    ELSE [kind |-> "Err", value |-> errs]

\* Ok(ResetResult { success, errors, cleared_items }) (reset.rs 396-400).
Return(success, errs, clrd) ==
    [kind |-> "Ok",
     value |-> [success |-> success, errors |-> errs, cleared_items |-> clrd]]

\* The function returns (reset.rs 388-401).
Finish ==
    /\ UNCHANGED logVars
    /\ pc = "run"
    /\ idx > Len(Steps(platform))
    /\ pc' = "done"
    /\ ret' = Return(Success(errors), errors, cleared_items)
    /\ UNCHANGED <<idx, rt, errors, cleared_items, trace, nfail, fsStart, runs, prevClean,
                   envVars, lockVars>>

\* ------------------------------------------- the concurrent session
\* A transcription takes the manager's lock for reading.
SessionRead ==
    /\ UNCHANGED logVars
    /\ sess = "idle"
    /\ ReadLockFree(lock)
    /\ lock' = [lock EXCEPT !.readers = @ \cup {"session"}]
    /\ sess' = "reading"
    /\ UNCHANGED <<manager, envVars, runVars>>

\* A model load takes it for writing.
SessionWrite ==
    /\ UNCHANGED logVars
    /\ sess = "idle"
    /\ WriteLockFree(lock) /\ ~lock.queued
    /\ lock' = [lock EXCEPT !.writer = "session"]
    /\ sess' = "writing"
    /\ UNCHANGED <<manager, envVars, runVars>>

\* The model load fills the manager.
SessionLoad ==
    /\ UNCHANGED logVars
    /\ sess = "writing"
    /\ manager # ManagerParts
    /\ manager' = ManagerParts
    /\ UNCHANGED <<lock, sess, envVars, runVars>>

\* The session drops its guard.
SessionRelease ==
    /\ UNCHANGED logVars
    /\ sess \in {"reading", "writing"}
    /\ lock' = [lock EXCEPT !.readers = @ \ {"session"},
                            !.writer = IF @ = "session" THEN "none" ELSE @]
    /\ sess' = "idle"
    /\ UNCHANGED <<manager, envVars, runVars>>

ResetNext ==
    \/ StartRun
    \/ StoreStep
    \/ DeleteStep
    \/ LicenseStep
    \/ PrefUtilStep
    \/ PermissionStep
    \/ RuntimeRequest
    \/ RuntimeAcquire
    \/ ClearAllBegin
    \/ ClearAllEnd
    \/ RuntimeDrop
    \/ ApiKeyStep
    \/ RefreshStep
    \/ EmitStep
    \/ Finish

SessionNext ==
    \/ SessionRead
    \/ SessionWrite
    \/ SessionLoad
    \/ SessionRelease

Next == ResetNext \/ SessionNext

\* reset_app_data beside a concurrent session.
Spec == Init /\ [][Next]_vars

\* clear_old_logs.
LogSpec == LogInit /\ [][LogNext]_vars

\* The steps of a run under way: everything of reset_app_data but the
\* invocation itself.
RunStep ==
    \/ StoreStep
    \/ DeleteStep
    \/ LicenseStep
    \/ PrefUtilStep
    \/ PermissionStep
    \/ RuntimeRequest
    \/ RuntimeAcquire
    \/ ClearAllBegin
    \/ ClearAllEnd
    \/ RuntimeDrop
    \/ ApiKeyStep
    \/ RefreshStep
    \/ EmitStep
    \/ Finish

\* A used installation whose directories all resolve.
FairInit ==
    /\ Init
    /\ pathOk = Roots(platform)
    /\ fs = Targets(platform)

\* reset_app_data beside a concurrent session, scheduled: the async runtime
\* keeps polling a task that can make progress, and a session that holds
\* the manager's lock drops its guard.
FairSpec ==
    /\ FairInit
    /\ [][Next]_vars
    /\ WF_vars(RunStep)
    /\ WF_vars(SessionRelease)

\* =============================================================== claims
\* ---- helpers over the history of the current run
StepCount == Len(Steps(platform))

KindTable ==
    [p \in Platforms |->
        [k \in {"store", "delete", "license", "prefutil", "permission", "runtime",
                "apikey", "refresh", "emit"} |->
            {i \in 1..Len(Steps(p)) : Steps(p)[i].kind = k}]]


Outcome(i) == trace[i][2]

\* The steps of kind k.
StepsOfKind(k) == KindTable[platform][k]

\* The number of entries of sequence q whose value satisfies being in set m.
CountIn(q, m) == Cardinality({i \in 1..Len(q) : q[i] \in m})

\* The error messages pushed so far, by prefix.
ErrPrefixes == [i \in 1..Len(errors) |-> errors[i][1]]

\* C1: every result reset_app_data returns has success = TRUE exactly when
\* its errors sequence is empty, and carries the errors the run accumulated.
C1_SuccessIffNoErrors ==
    ret.kind = "Ok" =>
        /\ ret.value.errors = errors
        /\ (ret.value.success = TRUE <=> ret.value.errors = << >>)

\* A finished run in which two steps failed and said so.
C1_Witness ==
    /\ pc = "done"
    /\ ret.kind = "Ok"
    /\ Len(ret.value.errors) = 2
    /\ ~ret.value.success

\* C2: no failure skips a later step. While a run is under way the steps
\* entered so far are 1, 2, ... without a gap; a finished run has entered
\* every step of the platform's sequence; a target that still exists after
\* the run and whose directory resolves had its removal attempted (and
\* failed); and a failed save of the settings store does not keep the
\* transcriptions store from being opened, cleared and saved.
C2_NoStepSkipped ==
    /\ pc \in {"run", "done"} =>
         /\ \A i \in 1..Len(trace) : trace[i][1] = i
         /\ Len(trace) = (IF idx > StepCount THEN StepCount ELSE idx - 1)
    /\ pc = "done" =>
         /\ Len(trace) = StepCount
         /\ \A i \in StepsOfKind("delete") :
              (Steps(platform)[i].arg \in fs /\ Target(Steps(platform)[i].arg).root \in pathOk)
                 => Outcome(i) = "fail"
         /\ Outcome(1) = "save_fail" =>
              /\ Outcome(2) \in {"ok", "save_fail", "open_fail"}
              /\ Outcome(2) # "open_fail" => ~stores["transcriptions"].mem
              /\ Outcome(2) = "ok" => ~stores["transcriptions"].disk

\* A finished first run in which the settings store's save failed, a later
\* deletion failed too, and the transcriptions store was still cleared and
\* saved.
C2_Witness ==
    /\ pc = "done" /\ runs = 1
    /\ Outcome(1) = "save_fail"
    /\ Outcome(2) = "ok"
    /\ \E i \in StepsOfKind("delete") : Outcome(i) = "fail"
    /\ Len(trace) = StepCount

\* The steps of the current run that failed: a store that could not be
\* opened or saved, a directory that could not be resolved or removed, a
\* vault, cache or event-bus call that returned an error, a permission
\* utility that could not be spawned.
FailedSteps ==
    {i \in 1..Len(trace) :
        \/ Outcome(i) \in {"open_fail", "save_fail", "resolve_fail", "fail"}
        \/ Steps(platform)[i].kind = "permission" /\ Outcome(i) = "spawn_fail"}

\* C3: every failed step adds exactly one message to errors, so a run with
\* a failed step reports success = FALSE.
C3_EveryFailureRecorded ==
    pc = "done" =>
        /\ Len(errors) = Cardinality(FailedSteps)
        /\ FailedSteps # {} => ~ret.value.success

\* ---- helpers over the log directory, written from the file names alone
\* The calendar date a log file's name carries, << >> when the entry is no
\* regular file named voicetypr-<date>.log with a date that parses.
LogDate(e) ==
    CASE e = 1 -> <<2024, 5, 2>>
      [] e = 2 -> <<2024, 5, 1>>
      [] e = 3 -> <<2024, 5, 31>>
      [] e = 4 -> <<2024, 6, 1>>
      [] e = 5 -> <<2020, 1, 1>>
      [] e = 6 -> <<2099, 1, 1>>
      [] e = 7 -> <<2024, 2, 29>>
      [] e = 13 -> <<2020, 1, 1>>
      [] e = 14 -> <<-2020, 1, 1>>
      [] OTHER -> << >>

\* today - days_to_keep on the calendar, << >> when it is no calendar date.
CutoffYMD(t, d) ==
    CASE t = <<2024, 6, 1>> /\ d = 0 -> <<2024, 6, 1>>
      [] t = <<2024, 6, 1>> /\ d = 1 -> <<2024, 5, 31>>
      [] t = <<2024, 6, 1>> /\ d = 30 -> <<2024, 5, 2>>
      [] t = <<2024, 3, 1>> /\ d = 0 -> <<2024, 3, 1>>
      [] t = <<2024, 3, 1>> /\ d = 1 -> <<2024, 2, 29>>
      [] t = <<2024, 3, 1>> /\ d = 30 -> <<2024, 1, 31>>
      [] OTHER -> << >>

\* Date a is strictly earlier than date b.
Earlier(a, b) ==
    \/ a[1] < b[1]
    \/ a[1] = b[1] /\ a[2] < b[2]
    \/ a[1] = b[1] /\ a[2] = b[2] /\ a[3] < b[3]

\* The entry is an old log file for this call.
Eligible(e) ==
    /\ LogDate(e) # << >>
    /\ CutoffYMD(today, days_to_keep) # << >>
    /\ Earlier(LogDate(e), CutoffYMD(today, days_to_keep))

\* C4: clear_old_logs removes an entry only if it is a regular file named
\* voicetypr-<date>.log whose date parses and lies strictly before
\* today - days_to_keep; everything else (a file dated the cutoff or later,
\* a non-matching name, a directory) stays; a call that returns a count has
\* removed every such file and returns the number of files it removed.
C4_DeletesExactlyOldLogs ==
    /\ lpc = "idle" => removed = {}
    /\ lpc # "idle" => removed \subseteq dir0 /\ dirEntries = dir0 \ removed
    /\ deleted_count = Cardinality(removed)
    /\ \A e \in removed : Eligible(e)
    /\ \A e \in dir0 : ~Eligible(e) => e \in dirEntries
    /\ (lret.kind = "Ok" /\ logDir = "present") =>
         /\ removed = {e \in dir0 : Eligible(e)}
         /\ lret.value = Cardinality(removed)

\* A 30-day sweep on 2024-06-01 of a directory holding the file dated the
\* cutoff (2024-05-02), the file dated the day before and readme.txt: only
\* the older file went and the call returned 1.
C4_Witness ==
    /\ lpc = "done"
    /\ today = <<2024, 6, 1>> /\ days_to_keep = 30
    /\ dir0 = {1, 2, 9}
    /\ dirEntries = {1, 9}
    /\ lret = Ok(1)

\* The filesystem labels and messages in the current run's sequences.
FsCleared == {i \in 1..Len(cleared_items) : cleared_items[i] \in FsLabels(platform)}

FsErrors == {i \in 1..Len(errors) : errors[i][1] \in FsErrs(platform)}

\* The labels of the steps that never test for existence.
UncheckedLabels ==
    {"Settings store", "Transcriptions store", "License data",
     "System preferences", "GSettings/dconf preferences", "Registry settings",
     "System permissions", "System permissions (N/A on Windows)",
     "System permissions (N/A on Linux)", "Runtime state", "AI API key cache"}

\* C5 as stated: the second run's cleared_items holds nothing but the
\* runtime-state entry (the event emit has no entry of its own).
C5_OnlyRuntimeInSecondRun ==
    (runs = 2 /\ pc = "done") =>
        \A i \in 1..Len(cleared_items) : cleared_items[i] = "Runtime state"

\* C5, amended: when the first run recorded no filesystem error, the second
\* run's cleared_items holds no filesystem label; it holds only labels of
\* the steps that never test for existence, "Runtime state" exactly once
\* among them.
C5_SecondRunLabels ==
    (runs >= 2 /\ pc = "done" /\ prevClean) =>
        /\ FsCleared = {}
        /\ \A i \in 1..Len(cleared_items) : cleared_items[i] \in UncheckedLabels
        /\ CountIn(cleared_items, {"Runtime state"}) = 1

\* A second run after a first one that removed everything: the stores are
\* reported as cleared again.
C5_Witness ==
    /\ runs = 2 /\ pc = "done" /\ prevClean
    /\ pathOk = Roots(platform)
    /\ fsStart = {}
    /\ CountIn(cleared_items, {"Settings store"}) = 1
    /\ CountIn(cleared_items, {"Runtime state"}) = 1

\* C6: the filesystem steps are idempotent. In a run that follows a run
\* without filesystem error, every target whose directory resolves was
\* absent at the start, every filesystem step ends as a no-op, and neither
\* sequence gets a filesystem entry.
C6_FilesystemIdempotent ==
    (runs >= 2 /\ pc \in {"run", "done"} /\ prevClean) =>
        /\ \A t \in Targets(platform) : Target(t).root \in pathOk => t \notin fsStart
        /\ \A i \in StepsOfKind("delete") \cap (1..Len(trace)) :
             Outcome(i) \in {"absent", "resolve_fail"}
        /\ FsCleared = {}
        /\ FsErrors = {}

\* A finished second run over an installation whose every target the first
\* run removed.
C6_Witness ==
    /\ runs = 2 /\ pc = "done" /\ prevClean
    /\ pathOk = Roots(platform)
    /\ fsStart = {} /\ fs = {}
    /\ \A i \in StepsOfKind("delete") : Outcome(i) = "absent"

LicenseIdx == CHOOSE i \in StepsOfKind("license") : TRUE

LicenseErrors == CountIn(ErrPrefixes, {"Failed to clear license: "})

\* The steps of the current run that pushed to errors.
ErrorSteps ==
    {i \in 1..Len(trace) :
        \/ Outcome(i) \in {"save_fail", "fail"}
        \/ Steps(platform)[i].kind = "permission" /\ Outcome(i) = "spawn_fail"}

\* C7: a vault that was never written is no error. When secure_delete fails
\* with the vault-absent condition, errors gets no license message, and a
\* run in which no other step pushed an error returns success = TRUE; any
\* other secure_delete failure adds exactly one license message.
C7_VaultAbsentIsNoError ==
    (pc \in {"run", "done"} /\ Len(trace) >= LicenseIdx) =>
        /\ Outcome(LicenseIdx) \in {"vault_absent", "ok"} => LicenseErrors = 0
        /\ Outcome(LicenseIdx) = "fail" => LicenseErrors = 1
        /\ (pc = "done" /\ Outcome(LicenseIdx) = "vault_absent"
              /\ ErrorSteps \ {LicenseIdx} = {}) => ret.value.success

\* A first run on an installation whose vault was never written, finished
\* with success.
C7_Witness ==
    /\ pc = "done" /\ runs = 1
    /\ Outcome(LicenseIdx) = "vault_absent"
    /\ ret.value.success
    /\ CountIn(cleared_items, {"License data"}) = 0

\* C8: the manager is cleared under the exclusive lock only. While
\* reset_app_data holds the manager (from the lock being granted to the
\* guard being dropped, the half-cleared state included) it is the lock's
\* writer and the session holds the lock neither for reading nor for
\* writing; outside the runtime step, and once the run has returned, it
\* does not hold or wait for the lock.
C8_ExclusiveClear ==
    /\ rt \in {"held", "half", "cleared"} =>
         /\ lock.writer = "reset"
         /\ lock.readers = {}
         /\ sess = "idle"
    /\ sess = "reading" => "session" \in lock.readers /\ lock.writer = "none"
    /\ sess = "writing" => lock.writer = "session" /\ lock.readers = {}
    /\ rt = "none" => lock.writer # "reset" /\ ~lock.queued
    /\ pc \in {"idle", "done"} => rt = "none"

\* The manager half cleared: its session part gone, its model part still
\* loaded, reset_app_data the lock's writer.
C8_Witness ==
    /\ rt = "half"
    /\ manager = {"model"}
    /\ lock.writer = "reset"
    /\ sess = "idle"

\* C9: clear_old_logs stops at the first removal that fails. Once a removal
\* has failed the call is over with that error; the file that could not be
\* removed, and every entry the iteration had not reached, are still there;
\* the files removed before stay removed.
C9_FailFastNoRollback ==
    failedEntry # 0 =>
        /\ lpc = "done"
        /\ lret = Err("Failed to delete log file: ", "io error")
        /\ failedEntry \in dirEntries
        /\ pending \subseteq dirEntries
        /\ removed \cap dirEntries = {}
        /\ dirEntries = dir0 \ removed

\* A sweep that removed one old log, failed on the second and left a third
\* old log unvisited.
C9_Witness ==
    /\ failedEntry # 0
    /\ Cardinality(removed) = 1
    /\ \E e \in pending : Eligible(e)
    /\ lret.kind = "Err"

\* C10: reset_app_data has no call-level error. What a run returns is always
\* Ok(ResetResult) carrying the run's errors and cleared_items, whatever
\* failed, the event emit included.
C10_NeverReturnsErr ==
    /\ ret.kind \in {"none", "Ok"}
    /\ pc = "done" =>
         /\ ret.kind = "Ok"
         /\ ret.value.errors = errors
         /\ ret.value.cleared_items = cleared_items
         /\ ret.value.success = (errors = << >>)

\* A finished run whose event emit failed after an earlier step had failed.
C10_Witness ==
    /\ pc = "done"
    /\ Outcome(StepCount) = "fail"
    /\ Len(errors) = 2
    /\ errors[2][1] = "Failed to emit reset event: "
    /\ ret.kind = "Ok"

\* C11: on an existing log directory clear_old_logs ends, for every
\* days_to_keep, by returning a count or an error string: today -
\* days_to_keep is a representable date and the call does not abort.
C11_AlwaysReturns ==
    (logDir = "present" /\ lpc # "idle") =>
        /\ CutoffDate(DayNumber(today[1], today[2], today[3]), days_to_keep)[1]
        /\ lpc # "panicked"
        /\ lpc = "done" => lret.kind \in {"Ok", "Err"}

\* The entries of the directory none of which is a regular file named
\* voicetypr-<date>.log with a date that parses.
NonMatchingOnly == \A e \in dir0 : LogDate(e) = << >>

\* The call ended on a directory that could not be listed.
ListingFailed ==
    /\ lret.kind = "Err"
    /\ lret.value[1] \in {"Failed to read log directory: ",
                          "Failed to read directory entry: "}

\* C12: with nothing eligible to sweep clear_old_logs returns 0, deletes
\* nothing and reports no error: when the log directory does not exist, and
\* when a directory that can be listed holds only non-matching entries.
C12_NothingToSweepReturnsZero ==
    /\ (logDir = "missing" /\ lpc # "idle") =>
         /\ lpc = "done"
         /\ lret = Ok(0)
         /\ dirEntries = dir0
    /\ (logDir = "present" /\ lpc \in {"done", "panicked"}
          /\ NonMatchingOnly /\ ~ListingFailed) =>
         /\ lret = Ok(0)
         /\ removed = {}
         /\ dirEntries = dir0

\* What one step of reset_app_data does to the two sequences: a step that
\* has been attempted (it got its trace entry) added nothing, or one entry
\* to errors, or one entry to cleared_items; between steps nothing is added.
OneEntryPerStep ==
    runs' = runs =>
        LET de == Len(errors') - Len(errors)
            dc == Len(cleared_items') - Len(cleared_items)
        IN IF trace' # trace
           THEN /\ Len(trace') = Len(trace) + 1
                /\ de \in {0, 1}
                /\ dc \in {0, 1}
                /\ de + dc <= 1
           ELSE de = 0 /\ dc = 0

\* C13: each teardown action adds at most one entry in total, to errors or
\* to cleared_items and never to both, so the two sequences together never
\* hold more entries than steps have been attempted.
C13_AtMostOneEntryPerStep ==
    /\ [](Len(errors) + Len(cleared_items) <= Len(trace))
    /\ [][OneEntryPerStep]_vars

\* A finished run with a failed step, a cleared step and a step that added
\* nothing.
C13_Witness ==
    /\ pc = "done"
    /\ Len(errors) >= 1
    /\ Len(cleared_items) >= 1
    /\ Len(errors) + Len(cleared_items) < Len(trace)
    /\ Len(trace) = StepCount

\* The label a step writes to cleared_items when it does, "" for the steps
\* that have none (daemon refresh, event emit).
StepLabel(st) ==
    CASE st.kind = "store" -> StoreLabel(st.arg)
      [] st.kind = "delete" -> Target(st.arg).label
      [] st.kind = "license" -> "License data"
      [] st.kind = "prefutil" -> PrefLabel(st.arg)
      [] st.kind = "permission" ->
           (CASE st.arg = "osascript" -> "System permissions"
              [] st.arg = "na_linux" -> "System permissions (N/A on Linux)"
              [] st.arg = "na_windows" -> "System permissions (N/A on Windows)")
      [] st.kind = "runtime" -> "Runtime state"
      [] st.kind = "apikey" -> "AI API key cache"
      [] OTHER -> ""

\* The prefix of the message a step writes to errors when it does, "" for
\* the steps that have none.
StepErr(st) ==
    CASE st.kind = "store" -> StoreErr(st.arg)
      [] st.kind = "delete" -> Target(st.arg).err
      [] st.kind = "license" -> "Failed to clear license: "
      [] st.kind = "permission" /\ st.arg = "osascript" -> "Could not reset permissions: "
      [] st.kind = "apikey" -> "Failed to clear API key cache: "
      [] st.kind = "emit" -> "Failed to emit reset event: "
      [] OTHER -> ""

LabelTable == [p \in Platforms |-> [i \in 1..Len(Steps(p)) |-> StepLabel(Steps(p)[i])]]

ErrTable == [p \in Platforms |-> [i \in 1..Len(Steps(p)) |-> StepErr(Steps(p)[i])]]

Least(c) == CHOOSE m \in c : \A x \in c : m <= x

\* The entries of q from the i-th on can be given to steps of the sequence
\* after step `last` and among the first `done` ones, each entry to a step
\* that writes it, in strictly increasing step order.
RECURSIVE Placed(_, _, _, _, _)
Placed(q, tbl, i, last, done) ==
    IF i > Len(q)
    THEN TRUE
    ELSE LET c == {s \in (last + 1)..done : tbl[s] = q[i]}
         IN c # {} /\ Placed(q, tbl, i + 1, Least(c), done)

\* q is in the execution order of the steps attempted so far.
InStepOrder(q, tbl) == Placed(q, tbl, 1, 0, Len(trace))

IsPrefix(a, b) == Len(a) <= Len(b) /\ \A i \in 1..Len(a) : a[i] = b[i]

\* C14: errors and cleared_items are in execution order: their entries
\* belong, one each, to steps already attempted, in the order of the fixed
\* step sequence; within a run both sequences only grow at the end; and
\* the result returns them as they are.
C14_ExecutionOrder ==
    /\ [](/\ InStepOrder(cleared_items, LabelTable[platform])
          /\ InStepOrder(ErrPrefixes, ErrTable[platform])
          /\ pc = "done" => /\ ret.value.errors = errors
                            /\ ret.value.cleared_items = cleared_items)
    /\ [][runs' = runs => /\ IsPrefix(errors, errors')
                          /\ IsPrefix(cleared_items, cleared_items')]_vars

\* A finished run that recorded two failures and at least three cleared
\* steps.
C14_Witness ==
    /\ pc = "done"
    /\ Len(ret.value.errors) = 2
    /\ Len(ret.value.cleared_items) >= 3
    /\ ret.value.errors[1][1] # ret.value.errors[2][1]

RuntimeIdx == CHOOSE i \in StepsOfKind("runtime") : TRUE

\* C15: the runtime-manager step has no error path. With a scheduler that
\* keeps the run going and a session that releases the lock, every run
\* returns, and a run returns only after it got the write lock, emptied the
\* manager and passed the event emission: its runtime step ended "ok", the
\* emit step was attempted, and its cleared_items holds "Runtime state"
\* exactly once; the step never touches errors.
C15_RuntimeStepCompletes ==
    /\ (pc = "run") ~> (pc = "done")
    /\ [](pc = "done" =>
            /\ Outcome(RuntimeIdx) = "ok"
            /\ Len(trace) = StepCount
            /\ Steps(platform)[StepCount].kind = "emit"
            /\ CountIn(cleared_items, {"Runtime state"}) = 1
            /\ CountIn(ret.value.cleared_items, {"Runtime state"}) = 1)
    /\ [][(AtStep("runtime") /\ pc' = "run") =>
            /\ errors' = errors
            /\ (rt' = "held" => lock'.writer = "reset" /\ lock'.readers = {})
            /\ (rt = "half" => manager' = {})
            /\ (idx' # idx => cleared_items' = Append(cleared_items, "Runtime state"))]_vars

\* A finished run in which two other steps failed: "Runtime state" is in
\* its cleared_items all the same and the manager is empty or was
\* refilled by a later model load.
C15_Witness ==
    /\ pc = "done"
    /\ Len(errors) = 2
    /\ CountIn(ret.value.cleared_items, {"Runtime state"}) = 1
    /\ ~ret.value.success

EmitErrors == CountIn(ErrPrefixes, {"Failed to emit reset event: "})

\* C16: the "app-reset" emit is attempted exactly once per run, as the last
\* step: when it is attempted every other step has its trace entry and the
\* runtime lock is released; a run returns only after the attempt, whatever
\* failed before; a successful emit delivers one event, a failed one adds
\* exactly one message, the last of errors, and the run then returns
\* success = FALSE, also when nothing else failed.
C16_EmitOncePerRun ==
    /\ Len(events) <= runs
    /\ pc \in {"run", "done"} =>
         /\ StepsOfKind("emit") = {StepCount}
         /\ AtStep("emit") =>
              /\ Len(trace) = StepCount - 1
              /\ \A i \in 1..(StepCount - 1) : trace[i][1] = i
              /\ Outcome(RuntimeIdx) = "ok"
              /\ rt = "none" /\ lock.writer # "reset" /\ ~lock.queued
         /\ Len(trace) < StepCount => EmitErrors = 0
         /\ Len(trace) = StepCount =>
              /\ Outcome(StepCount) \in {"ok", "fail"}
              /\ Outcome(StepCount) = "ok" => EmitErrors = 0
              /\ Outcome(StepCount) = "fail" =>
                   /\ EmitErrors = 1
                   /\ errors[Len(errors)][1] = "Failed to emit reset event: "
    /\ pc = "done" =>
         /\ Len(trace) = StepCount
         /\ runs = 1 => Len(events) = (IF Outcome(StepCount) = "ok" THEN 1 ELSE 0)
         /\ Outcome(StepCount) = "fail" => ~ret.value.success
         /\ (Outcome(StepCount) = "fail" /\ ErrorSteps = {StepCount}) =>
              /\ Len(ret.value.errors) = 1
              /\ ~ret.value.success

\* A finished run whose only failure is the emit: every other step is in
\* cleared_items or was a no-op, no event was delivered, success is FALSE.
C16_Witness ==
    /\ pc = "done" /\ runs = 1
    /\ Outcome(StepCount) = "fail"
    /\ ErrorSteps = {StepCount}
    /\ errors = <<Fmt("Failed to emit reset event: ", "emit error")>>
    /\ events = << >>
    /\ ~ret.value.success
    /\ CountIn(cleared_items, {"Runtime state"}) = 1

\* The steps of the current run that pushed to cleared_items.
ClearedSteps ==
    {i \in 1..Len(trace) :
        \/ Outcome(i) = "na"
        \/ Outcome(i) = "ok" /\ Steps(platform)[i].kind \notin {"refresh", "emit"}}

PermissionLabels ==
    {"System permissions", "System permissions (N/A on Windows)",
     "System permissions (N/A on Linux)"}

\* C17: an external utility is recorded in cleared_items exactly when it was
\* spawned and exited with success. A preference utility that is absent or
\* exits non-zero adds nothing to either sequence; the permission reset
\* adds nothing when it exits non-zero and one message when it cannot be
\* spawned; Windows and Linux add their one N/A label and nothing else.
C17_ExitStatusGatesRecord ==
    pc \in {"run", "done"} =>
        /\ Len(errors) = Cardinality(ErrorSteps)
        /\ Len(cleared_items) = Cardinality(ClearedSteps)
        /\ \A i \in StepsOfKind("prefutil") \cap (1..Len(trace)) :
             /\ Outcome(i) \in {"ok", "nonzero", "spawn_fail"}
             /\ i \notin ErrorSteps
             /\ CountIn(cleared_items, {PrefLabel(Steps(platform)[i].arg)})
                  = (IF Outcome(i) = "ok" THEN 1 ELSE 0)
        /\ \A i \in StepsOfKind("permission") \cap (1..Len(trace)) :
             IF Steps(platform)[i].arg = "osascript"
             THEN /\ Outcome(i) \in {"ok", "nonzero", "spawn_fail"}
                  /\ CountIn(cleared_items, PermissionLabels)
                       = (IF Outcome(i) = "ok" THEN 1 ELSE 0)
                  /\ CountIn(cleared_items, {"System permissions"})
                       = (IF Outcome(i) = "ok" THEN 1 ELSE 0)
                  /\ CountIn(ErrPrefixes, {"Could not reset permissions: "})
                       = (IF Outcome(i) = "spawn_fail" THEN 1 ELSE 0)
                  /\ Outcome(i) = "nonzero" => i \notin ErrorSteps \cup ClearedSteps
             ELSE /\ Outcome(i) = "na"
                  /\ CountIn(cleared_items, PermissionLabels) = 1
                  /\ CountIn(cleared_items, {StepLabel(Steps(platform)[i])}) = 1
                  /\ CountIn(ErrPrefixes, {"Could not reset permissions: "}) = 0

\* A finished macOS run in which `defaults` exited non-zero and the
\* permission dialog was cancelled: neither is in cleared_items, errors is
\* empty and the run reports success.
C17_Witness ==
    /\ pc = "done"
    /\ platform = "macos"
    /\ \A i \in StepsOfKind("prefutil") \cup StepsOfKind("permission") :
         Outcome(i) = "nonzero"
    /\ errors = << >>
    /\ ret.value.success
    /\ CountIn(cleared_items, {"System preferences", "System permissions"}) = 0

====
